---- MODULE Spec2Model ----
(***************************************************************************)
(* A model of the stateful classes of the SportBeacon Unreal module:       *)
(*   UCoachingFlowWidget   (CoachingFlowWidget.cpp)                        *)
(*   AMapView / ABP_MapViewHandler (MapView.cpp, BP_MapViewHandler.cpp)    *)
(*   UVoiceInputManager    (VoiceInputManager.cpp)                         *)
(*   UTimelineFeedWidget   (TimelineFeedWidget.cpp)                        *)
(*   UCoachAssistantWidget (CoachAssistantWidget.cpp)                      *)
(* Each class is an independent object; each has its own specification     *)
(* (SpecFlow, SpecCamera, SpecMarkers, SpecVenues, SpecHighlights,          *)
(* SpecVoice, SpecFeed, SpecAssistant) over the shared variable tuple, so   *)
(* that the objects' state spaces are explored separately; the map view has *)
(* one for each group of its members.  Rendering properties (materials,     *)
(* locations, scale, scrolling) are engine state and are not modelled.      *)
(* lastOp is a history variable: the operation of the last step and its     *)
(* inputs.                                                                  *)
(***************************************************************************)
EXTENDS Integers, Sequences, FiniteSets, TLC

VARIABLES
    \* ---- UCoachingFlowWidget
    CurrentState,       \* ECoachingFlowState CurrentState
    MessageHistory,     \* TArray<FCoachingMessage> MessageHistory
    saveFile,           \* Saved/CoachingFlow.json (the parsed JSON document)
    lastSaved,          \* history: what the last successful write was given
    flowEvents,         \* delegate broadcasts of the last operation, in order
    prevState,          \* history: CurrentState before the last operation
    inFlow,             \* history: StartCoachingFlow, then only SendMessage
    mediaUI,            \* visibility of MediaPlayer / ImageDisplay, loaded URLs
    \* ---- AMapView: camera
    MinZoom, MaxZoom,   \* UPROPERTY(EditAnywhere) float MinZoom, MaxZoom
    ZoomSpeed,          \* UPROPERTY(EditAnywhere) float ZoomSpeed
    CurrentZoom,        \* float CurrentZoom
    cameraZ,            \* MapCamera->GetRelativeLocation().Z
    zoomed,             \* history: ZoomIn has run at least once
    bHasBegunPlay,      \* AActor: BeginPlay has been dispatched
    \* ---- AMapView: venue, player and event markers
    Venues, Players, Events,                    \* TArray<FVenueData> ... data storage
    VenueMarkers, PlayerMarkers, EventMarkers,  \* TMap<FString, AActor*>
    meshes,             \* which of DefaultVenueMarker, PlayerMarkerMesh, EventMarkerMesh are set
    actors,             \* the world: the live marker actors, each with its kind and Tags[0]
    survivors,          \* history: the markers of the kind the last Update call was for
                        \* that were live before the call and that it did not destroy
    mapEvents,          \* delegate broadcasts of the last operation, in order
    \* ---- AMapView: highlight markers
    HighlightMarkerMesh,    \* UStaticMesh* HighlightMarkerMesh is set
    HighlightMarkers,       \* TMap<FString, UStaticMeshComponent*>
    ActiveHighlights,       \* TArray<FHighlightData>
    CurrentPlayerFilter, CurrentTeamFilter, CurrentTypeFilter,
    components,         \* the live highlight components of the map view, by name
    \* ---- UVoiceInputManager
    bIsRecording, CurrentLanguage, AudioComponent, CaptureComponent, WebSocket,
    voiceErrors,        \* history: the number of OnVoiceInputError broadcasts
    \* ---- UTimelineFeedWidget
    FeedScrollBox, DefaultFeedEntryClass, BadgeEntryClass,  \* the pointer is set
    MaxEntries,         \* int32 MaxEntries
    FeedEntries,        \* TArray<UUserWidget*> FeedEntries
    scrollChildren,     \* the children of FeedScrollBox, in order
    widgetsCreated,     \* the number of CreateWidget calls so far
    feedAdded,          \* history: the widgets added since the last ClearFeed
    \* ---- UCoachAssistantWidget
    ChatScrollBox,      \* the pointer is set
    CoachMessageHistory,    \* TArray<FCoachMessage> MessageHistory (the name is
                            \* the coaching flow's too)
    chatBubbles,        \* the number of children of ChatScrollBox
    coachAdded,         \* history: every message given to AddMessageToHistory
    coachEvents,        \* delegate broadcasts of the last operation, in order
    \* ---- UMediaPlayerWidget
    MediaPlayer,        \* UMediaPlayer* MediaPlayer: 0 for nullptr, else the player's number
    mediaPlayers,       \* the engine: the state of every UMediaPlayer created
    bIsPlaying, bIsMuted, Duration,
    userPlayed,         \* history: Play has been called from outside the widget
    mediaEvents,        \* delegate broadcasts of the last operation, in order
    \* ---- UImageDisplayWidget
    ImageDisplay,       \* the pointer is set
    CurrentImageId, CurrentImageURL, bIsLoading,
    imageCalls,         \* history: the LoadImage calls, their requests and broadcasts
    imageEvents,        \* delegate broadcasts of the last operation, in order
    \* ---- UBadgeRewardWidget
    boundAnimations,    \* which of FadeInAnimation, PulseAnimation, SparkleAnimation are set
    activeAnimations,   \* the animations that are running
    fadeInFinished, pulseFinished,  \* the delegates added to the finished events
    started,            \* history: the starts of each animation since the last call
    badgeCalls,         \* history: the number of DisplayEarnedBadge calls
    lastOp

flowVars == <<CurrentState, MessageHistory, saveFile, lastSaved, flowEvents,
              prevState, inFlow, mediaUI>>

cameraVars == <<MinZoom, MaxZoom, ZoomSpeed, CurrentZoom, cameraZ, zoomed>>

markerVars == <<Venues, Players, Events, VenueMarkers, PlayerMarkers, EventMarkers,
                meshes, actors, survivors, mapEvents>>

highlightVars == <<HighlightMarkerMesh, HighlightMarkers, ActiveHighlights,
                   CurrentPlayerFilter, CurrentTeamFilter, CurrentTypeFilter, components>>

voiceVars == <<bIsRecording, CurrentLanguage, AudioComponent, CaptureComponent, WebSocket,
               voiceErrors>>

feedVars == <<FeedScrollBox, DefaultFeedEntryClass, BadgeEntryClass, MaxEntries,
              FeedEntries, scrollChildren, widgetsCreated, feedAdded>>

assistantVars == <<ChatScrollBox, CoachMessageHistory, chatBubbles, coachAdded, coachEvents>>

mapViewVars == <<cameraVars, markerVars, bHasBegunPlay>>

\* The widgets that display one thing: media player, image display, badge.
mediaVars == <<MediaPlayer, mediaPlayers, bIsPlaying, bIsMuted, Duration, userPlayed,
               mediaEvents>>

imageVars == <<ImageDisplay, CurrentImageId, CurrentImageURL, bIsLoading, imageCalls,
               imageEvents>>

badgeVars == <<boundAnimations, activeAnimations, fadeInFinished, pulseFinished, started, badgeCalls>>

displayVars == <<mediaVars, imageVars, badgeVars>>

vars == <<flowVars, mapViewVars, highlightVars, voiceVars, feedVars, assistantVars,
          displayVars, lastOp>>

\* What the operations of one object leave alone.
ExceptFlow == <<mapViewVars, highlightVars, voiceVars, feedVars, assistantVars, displayVars>>
ExceptCamera == <<flowVars, markerVars, bHasBegunPlay, highlightVars, voiceVars, feedVars,
                  assistantVars, displayVars>>
ExceptMarkers == <<flowVars, cameraVars, bHasBegunPlay, highlightVars, voiceVars, feedVars,
                   assistantVars, displayVars>>
ExceptHighlights == <<flowVars, mapViewVars, voiceVars, feedVars, assistantVars, displayVars>>
ExceptVoice == <<flowVars, mapViewVars, highlightVars, feedVars, assistantVars, displayVars>>
ExceptFeed == <<flowVars, mapViewVars, highlightVars, voiceVars, assistantVars, displayVars>>
ExceptAssistant == <<flowVars, mapViewVars, highlightVars, voiceVars, feedVars, displayVars>>
AllButDisplay == <<flowVars, mapViewVars, highlightVars, voiceVars, feedVars, assistantVars>>
ExceptMedia == <<AllButDisplay, imageVars, badgeVars>>
ExceptImage == <<AllButDisplay, mediaVars, badgeVars>>
ExceptBadge == <<AllButDisplay, mediaVars, imageVars>>

(***************************************************************************)
(*                         UCoachingFlowWidget                             *)
(***************************************************************************)

\* Bounds of the model of the coaching flow.
MaxHistory == 17
MsTick == 500

\* enum class ECoachingFlowState : uint8, in declaration order (values 0..7).
FlowStates == <<"Initial", "PerformanceReview", "WeaknessIdentification",
                "DrillRecommendation", "WorkoutPlan", "MealPlan",
                "LocationSuggestion", "ProgressSummary">>

\* static_cast<int32>(CurrentState)
StateToInt(s) == (CHOOSE i \in 1..Len(FlowStates) : FlowStates[i] = s) - 1

\* static_cast<ECoachingFlowState>(int)
IntToState(n) == FlowStates[n + 1]

DrillVideoURL == "https://sportbeacon.cdn/drills/overview.mp4"
WelcomeText == "Welcome to your personalized coaching session!"

\* Non-empty texts a player may send, and the empty text.
UserTexts == {"", "fine"}

\* FDateTime::Now(): seconds and the sub-second part.  The model does not advance
\* the clock; a reading has a sub-second part.
Times == [sec : {0}, ms : {MsTick}]

\* FDateTime::ToString(): "%Y.%m.%d-%H.%M.%S", the sub-second part is dropped.
DateTimeToString(t) == t.sec

\* FDateTime::Parse of such a string.
DateTimeParse(s) == [sec |-> s, ms |-> 0]

\* FCoachingMessage
CoachingMessage(sender, text, url, coach, now) ==
    [SenderName |-> sender, MessageText |-> text, MediaURL |-> url,
     bIsCoach |-> coach, Timestamp |-> now]

\* FString::EndsWith(".mp4") on the URLs the widget handles.
EndsWithMp4(url) == url = DrillVideoURL

\* The part of the widget that AddMessageToUI works on.
UIState == [hist |-> MessageHistory, events |-> <<>>, media |-> mediaUI]

DisplayMedia(ui, URL, bIsVideo) ==
    IF bIsVideo
    THEN [ui EXCEPT !.media = [MediaPlayer |-> "Visible", ImageDisplay |-> "Collapsed",
                               video |-> URL, image |-> @.image]]
    ELSE [ui EXCEPT !.media = [MediaPlayer |-> "Collapsed", ImageDisplay |-> "Visible",
                               video |-> @.video, image |-> URL]]

AddMessageToUI(ui, Message) ==
    LET added == [ui EXCEPT !.hist = Append(@, Message),
                            !.events = Append(@, [ev |-> "OnMessageReceived",
                                                  arg |-> Message.MessageText])]
    IN  IF Message.MediaURL # ""
        THEN DisplayMedia(added, Message.MediaURL, EndsWithMp4(Message.MediaURL))
        ELSE added

\* UpdateFlowState: the broadcast it makes (the assignment is made by the caller).
FlowStateChanged(s) == [ev |-> "OnFlowStateChanged", arg |-> s]

\* A switch that jumps from WorkoutPlan over MealPlan.
ProcessedState_SkipMealPlan(s) ==
    CASE s = "PerformanceReview"      -> "WeaknessIdentification"
      [] s = "WeaknessIdentification" -> "DrillRecommendation"
      [] s = "DrillRecommendation"    -> "WorkoutPlan"
      [] s = "WorkoutPlan"            -> "LocationSuggestion"
      [] s = "MealPlan"               -> "LocationSuggestion"
      [] s = "LocationSuggestion"     -> "ProgressSummary"
      [] OTHER                        -> s

\* ProcessUserInput's switch: the response and the next state.
ProcessedState(s) ==
    CASE s = "PerformanceReview"      -> "WeaknessIdentification"
      [] s = "WeaknessIdentification" -> "DrillRecommendation"
      [] s = "DrillRecommendation"    -> "WorkoutPlan"
      [] s = "WorkoutPlan"            -> "MealPlan"
      [] s = "MealPlan"               -> "LocationSuggestion"
      [] s = "LocationSuggestion"     -> "ProgressSummary"
      [] OTHER                        -> s

ResponseText(s) ==
    CASE s = "PerformanceReview"      -> "I understand."
      [] s = "WeaknessIdentification" -> "Thank you for sharing."
      [] s = "DrillRecommendation"    -> "Great!"
      [] s = "WorkoutPlan"            -> "Perfect."
      [] s = "MealPlan"               -> "I've found some nearby facilities"
      [] s = "LocationSuggestion"     -> "Excellent!"
      [] OTHER                        -> "Is there anything specific"

ResponseMedia(s) == IF s = "WeaknessIdentification" THEN DrillVideoURL ELSE ""

\* SaveConversationState: the JSON document written.
EncodeMessage(m) ==
    [SenderName |-> m.SenderName, MessageText |-> m.MessageText,
     MediaURL |-> m.MediaURL, bIsCoach |-> m.bIsCoach,
     Timestamp |-> DateTimeToString(m.Timestamp)]

SaveDocument(hist, state) ==
    [exists |-> TRUE,
     Messages |-> [i \in 1..Len(hist) |-> EncodeMessage(hist[i])],
     CurrentState |-> StateToInt(state)]

\* A reader that forgets the MediaURL field.
DecodeMessage_NoMediaURL(o) ==
    [SenderName |-> o.SenderName, MessageText |-> o.MessageText,
     MediaURL |-> "", bIsCoach |-> o.bIsCoach,
     Timestamp |-> DateTimeParse(o.Timestamp)]

\* LoadConversationState: one message read back from its JSON object.
DecodeMessage(o) ==
    [SenderName |-> o.SenderName, MessageText |-> o.MessageText,
     MediaURL |-> o.MediaURL, bIsCoach |-> o.bIsCoach,
     Timestamp |-> DateTimeParse(o.Timestamp)]

RECURSIVE LoadMessages(_, _)
LoadMessages(ui, objs) ==
    IF objs = <<>> THEN ui
    ELSE LoadMessages(AddMessageToUI(ui, DecodeMessage(Head(objs))), Tail(objs))

NoFile == [exists |-> FALSE, Messages |-> <<>>, CurrentState |-> 0]

\* The four fields of a message the conversation consists of.
Content(m) == [SenderName |-> m.SenderName, MessageText |-> m.MessageText,
               MediaURL |-> m.MediaURL, bIsCoach |-> m.bIsCoach]
Contents(hist) == [i \in 1..Len(hist) |-> Content(hist[i])]

FlowInit ==
    /\ CurrentState = "Initial"
    /\ MessageHistory = <<>>
    /\ saveFile = NoFile
    /\ lastSaved = [hist |-> <<>>, state |-> "Initial"]
    /\ flowEvents = <<>>
    /\ prevState = "Initial"
    /\ inFlow = FALSE
    /\ mediaUI = [MediaPlayer |-> "Visible", ImageDisplay |-> "Visible",
                  video |-> "", image |-> ""]

\* UCoachingFlowWidget::UCoachingFlowWidget: a new widget object (a new session);
\* the save file outlives the widget.
FlowConstructor ==
    /\ CurrentState' = "Initial"
    /\ MessageHistory' = <<>>
    /\ flowEvents' = <<>>
    /\ prevState' = CurrentState
    /\ inFlow' = FALSE
    /\ mediaUI' = [MediaPlayer |-> "Visible", ImageDisplay |-> "Visible",
                   video |-> "", image |-> ""]
    /\ lastOp' = [op |-> "FlowConstructor", arg |-> 0]
    /\ UNCHANGED <<saveFile, lastSaved, ExceptFlow>>

\* LoadConversationState, as a function of the widget and the file.
LoadConversationState(ui, state, file) ==
    IF file.exists
    THEN LET loaded == LoadMessages(ui, file.Messages)
             s == IntToState(file.CurrentState)
         IN  [ui |-> [loaded EXCEPT !.events = Append(@, FlowStateChanged(s))],
              state |-> s]
    ELSE [ui |-> ui, state |-> state]

\* NativeConstruct: binds the buttons and loads the previous conversation.
NativeConstruct ==
    /\ Len(MessageHistory) + Len(saveFile.Messages) <= MaxHistory
    /\ LET r == LoadConversationState(UIState, CurrentState, saveFile)
       IN  /\ CurrentState' = r.state
           /\ MessageHistory' = r.ui.hist
           /\ flowEvents' = r.ui.events
           /\ mediaUI' = r.ui.media
    /\ prevState' = CurrentState
    /\ inFlow' = FALSE
    /\ lastOp' = [op |-> "NativeConstruct", arg |-> Len(MessageHistory)]
    /\ UNCHANGED <<saveFile, lastSaved, ExceptFlow>>

\* A StartCoachingFlow that does not empty MessageHistory.
StartCoachingFlow_KeepHistory(now) ==
    LET ui == AddMessageToUI(UIState, CoachingMessage("Coach AI", WelcomeText, "", TRUE, now))
    IN  /\ CurrentState' = "PerformanceReview"
        /\ MessageHistory' = ui.hist
        /\ flowEvents' = Append(ui.events, FlowStateChanged("PerformanceReview"))
        /\ mediaUI' = ui.media

\* StartCoachingFlow: clear, welcome message, UpdateFlowState(PerformanceReview).
StartCoachingFlowBody(now) ==
    LET cleared == [UIState EXCEPT !.hist = <<>>]
        ui == AddMessageToUI(cleared, CoachingMessage("Coach AI", WelcomeText, "", TRUE, now))
    IN  /\ CurrentState' = "PerformanceReview"
        /\ MessageHistory' = ui.hist
        /\ flowEvents' = Append(ui.events, FlowStateChanged("PerformanceReview"))
        /\ mediaUI' = ui.media

StartCoachingFlow ==
    \E now \in Times :
        /\ StartCoachingFlowBody(now)
        /\ prevState' = CurrentState
        /\ inFlow' = TRUE
        /\ lastOp' = [op |-> "StartCoachingFlow", arg |-> Len(MessageHistory)]
        /\ UNCHANGED <<saveFile, lastSaved, ExceptFlow>>

\* ProcessUserInput up to its final SaveConversationState: the broadcast of
\* UpdateFlowState (none in the default case), then the coach's response.
ProcessUserInput(ui, state, now) ==
    LET next == ProcessedState(state)
        Response == CoachingMessage("Coach AI", ResponseText(state),
                                    ResponseMedia(state), TRUE, now)
        announced == IF next # state
                     THEN [ui EXCEPT !.events = Append(@, FlowStateChanged(next))]
                     ELSE ui
    IN  [ui |-> AddMessageToUI(announced, Response), state |-> next]

\* SaveConversationState; FFileHelper::SaveStringToFile may fail, its result is
\* ignored and the file is then left as it was.
SaveConversationState(hist, state, writeOK) ==
    IF writeOK
    THEN /\ saveFile' = SaveDocument(hist, state)
         /\ lastSaved' = [hist |-> hist, state |-> state]
    ELSE UNCHANGED <<saveFile, lastSaved>>

SendMessage ==
    \E Message \in UserTexts, now1 \in Times, now2 \in Times, writeOK \in BOOLEAN :
        /\ lastOp' = [op |-> "SendMessage", arg |-> Message]
        /\ prevState' = CurrentState
        /\ inFlow' = inFlow
        /\ UNCHANGED ExceptFlow
        /\ IF Message = ""
           THEN /\ flowEvents' = <<>>
                /\ UNCHANGED <<CurrentState, MessageHistory, saveFile, lastSaved, mediaUI>>
           ELSE /\ Len(MessageHistory) + 2 <= MaxHistory
                /\ LET UserMessage == CoachingMessage("Player", Message, "", FALSE, now1)
                       r == ProcessUserInput(AddMessageToUI(UIState, UserMessage),
                                             CurrentState, now2)
                   IN  /\ CurrentState' = r.state
                       /\ MessageHistory' = r.ui.hist
                       /\ flowEvents' = r.ui.events
                       /\ mediaUI' = r.ui.media
                       /\ SaveConversationState(r.ui.hist, r.state, writeOK)

FlowNext == FlowConstructor \/ NativeConstruct \/ StartCoachingFlow \/ SendMessage

\* ---- Claims about the coaching flow

SentNonEmpty == lastOp.op = "SendMessage" /\ lastOp.arg # ""

\* C1 (as stated): after StartCoachingFlow, every SendMessage with a non-empty
\* message advances CurrentState by exactly one step of the fixed order.
C1_EverySendAdvances ==
    (inFlow /\ SentNonEmpty) => StateToInt(CurrentState) = StateToInt(prevState) + 1

\* C1 (amended): after StartCoachingFlow, a SendMessage with a non-empty message
\* advances CurrentState by exactly one step of the fixed order while it is before
\* ProgressSummary, and leaves it at ProgressSummary once there; no state is
\* skipped and none is revisited.
C1_AdvanceOrStayAtEnd ==
    (inFlow /\ SentNonEmpty) =>
        /\ prevState # "Initial"
        /\ IF prevState = "ProgressSummary"
           THEN CurrentState = "ProgressSummary"
           ELSE StateToInt(CurrentState) = StateToInt(prevState) + 1

\* The flow was walked to its end and a further message was sent there.
C1_Witness ==
    /\ inFlow /\ SentNonEmpty
    /\ prevState = "ProgressSummary" /\ CurrentState = "ProgressSummary"

LoadedIntoEmpty ==
    lastOp.op = "NativeConstruct" /\ lastOp.arg = 0 /\ saveFile.exists

\* C4: LoadConversationState on a widget with empty history, after a save wrote
\* the file, restores the saved CurrentState and the saved messages (SenderName,
\* MessageText, MediaURL, bIsCoach, in order) and broadcasts OnFlowStateChanged
\* with the restored state.
C4_SaveLoadRoundTrip ==
    LoadedIntoEmpty =>
        /\ CurrentState = lastSaved.state
        /\ Contents(MessageHistory) = Contents(lastSaved.hist)
        /\ flowEvents # <<>>
        /\ flowEvents[Len(flowEvents)] = FlowStateChanged(lastSaved.state)
        /\ \A i \in 1..(Len(flowEvents) - 1) : flowEvents[i].ev = "OnMessageReceived"

\* A conversation with a media message, saved in one widget and loaded by the
\* next; the timestamps do not survive the trip, the four fields do.
C4_Witness ==
    /\ LoadedIntoEmpty
    /\ CurrentState = "DrillRecommendation"
    /\ \E i \in 1..Len(MessageHistory) : MessageHistory[i].MediaURL = DrillVideoURL
    /\ MessageHistory # lastSaved.hist

\* C5: StartCoachingFlow, from any state and any history, leaves exactly the
\* Coach AI welcome message in MessageHistory and CurrentState = PerformanceReview.
C5_StartResets ==
    lastOp.op = "StartCoachingFlow" =>
        /\ CurrentState = "PerformanceReview"
        /\ Len(MessageHistory) = 1
        /\ Content(MessageHistory[1]) =
               [SenderName |-> "Coach AI", MessageText |-> WelcomeText,
                MediaURL |-> "", bIsCoach |-> TRUE]

\* StartCoachingFlow called in the middle of a conversation.
C5_Witness ==
    /\ lastOp.op = "StartCoachingFlow"
    /\ lastOp.arg >= 5
    /\ prevState = "DrillRecommendation"

(***************************************************************************)
(*                          AMapView: the camera                           *)
(***************************************************************************)

\* Defaults set by the constructor.
DefaultMinZoom == 500
DefaultMaxZoom == 5000
DefaultZoomSpeed == 100
InitialZoom == 1000

\* Other values the editable properties MinZoom and MaxZoom are given in the model.
HighMinZoom == 2000
LowMaxZoom == 1500

\* Wheel deltas: the small ones, and one large enough to cross the whole range.
MaxDelta == 3
BigDelta == 50

\* A float: a number or NaN (every comparison with NaN is false, every sum is NaN).
Float(v) == [nan |-> FALSE, v |-> v]
NaN == [nan |-> TRUE, v |-> 0]
FLess(a, b) == ~a.nan /\ ~b.nan /\ a.v < b.v
FLessEq(a, b) == ~a.nan /\ ~b.nan /\ a.v <= b.v
FSub(a, b) == IF a.nan \/ b.nan THEN NaN ELSE Float(a.v - b.v)
FMul(a, b) == IF a.nan \/ b.nan THEN NaN ELSE Float(a.v * b.v)
FNeg(a) == IF a.nan THEN NaN ELSE Float(0 - a.v)

Deltas == {Float(d) : d \in ((0 - MaxDelta)..MaxDelta) \cup {0 - BigDelta, BigDelta}}
              \cup {NaN}

\* A clamp that forgets the upper limit.
Clamp_NoUpperLimit(X, Min, Max) == IF FLess(X, Min) THEN Min ELSE X

\* FMath::Clamp(X, Min, Max): X < Min ? Min : X < Max ? X : Max
Clamp(X, Min, Max) == IF FLess(X, Min) THEN Min ELSE IF FLess(X, Max) THEN X ELSE Max

\* The camera as the constructor leaves it; MinZoom and MaxZoom are editable
\* properties of the placed actor.
CameraInit(MinZooms, MaxZooms) ==
    /\ MinZoom \in MinZooms
    /\ MaxZoom \in MaxZooms
    /\ ZoomSpeed = Float(DefaultZoomSpeed)
    /\ CurrentZoom = Float(InitialZoom)
    /\ cameraZ = Float(InitialZoom)
    /\ zoomed = FALSE

\* ZoomIn(Delta): the new zoom and the camera's Z.
ZoomInBody(Delta) ==
    LET NewZoom == Clamp(FSub(CurrentZoom, FMul(Delta, ZoomSpeed)), MinZoom, MaxZoom)
    IN  /\ CurrentZoom' = NewZoom
        /\ cameraZ' = NewZoom
        /\ zoomed' = TRUE
        /\ UNCHANGED <<MinZoom, MaxZoom, ZoomSpeed>>

ZoomIn ==
    \E Delta \in Deltas :
        /\ ZoomInBody(Delta)
        /\ lastOp' = [op |-> "ZoomIn", arg |-> Delta]
        /\ UNCHANGED ExceptCamera

\* ZoomOut(Delta) is ZoomIn(-Delta).
ZoomOut ==
    \E Delta \in Deltas :
        /\ ZoomInBody(FNeg(Delta))
        /\ lastOp' = [op |-> "ZoomOut", arg |-> Delta]
        /\ UNCHANGED ExceptCamera

\* ABP_MapViewHandler::HandleZoom(Value), bound to the mouse wheel axis.
HandleZoom ==
    \E Value \in Deltas :
        /\ IF Value.nan \/ Value.v # 0
           THEN IF FLess(Float(0), Value)
                THEN ZoomInBody(Value)
                ELSE ZoomInBody(FNeg(FNeg(Value)))
           ELSE UNCHANGED cameraVars
        /\ lastOp' = [op |-> "HandleZoom", arg |-> Value]
        /\ UNCHANGED ExceptCamera

\* ---- Claim about the camera

\* C6: once ZoomIn or ZoomOut has been called, with any Delta, and provided
\* MinZoom <= MaxZoom, MinZoom <= CurrentZoom <= MaxZoom; and the camera's
\* relative Z equals CurrentZoom.
C6_ZoomWithinLimits ==
    /\ cameraZ = CurrentZoom
    /\ (zoomed /\ FLessEq(MinZoom, MaxZoom)) =>
           FLessEq(MinZoom, CurrentZoom) /\ FLessEq(CurrentZoom, MaxZoom)

\* A zoom from inside the range that the upper limit stopped, asked for by a
\* negative Delta given to ZoomIn.
C6_Witness ==
    /\ zoomed
    /\ lastOp.op = "ZoomIn" /\ FLess(lastOp.arg, Float(0))
    /\ FLess(MinZoom, MaxZoom)
    /\ CurrentZoom = MaxZoom /\ cameraZ = MaxZoom

(***************************************************************************)
(*              AMapView: venue, player and event markers                  *)
(***************************************************************************)

\* Bounds: the length of a list given to an Update call, the live marker actors.
MaxList == 2
MaxActors == 3

VenueIds == {"v1", "v2"}
VenueNames == {"Downtown Sports Complex", "Riverside Soccer Fields"}
PlayerIds == {"p1"}
EventIds == {"e1"}

\* FVenueData, FPlayerData, FEventData: the fields the marker lifecycle reads.
VenueData == {v \in [Id : VenueIds, Name : VenueNames] :
                  v.Id = "v1" \/ v.Name = "Riverside Soccer Fields"}
PlayerData == [Id : PlayerIds]
EventData == [Id : EventIds]

ListsOf(S) == UNION {[1..n -> S] : n \in 0..MaxList}

\* LoadMockVenueData's list.
MockVenues == <<[Id |-> "v1", Name |-> "Downtown Sports Complex"],
                [Id |-> "v2", Name |-> "Riverside Soccer Fields"]>>

\* The spawns of one call that return null: none, or one of them.
FailureSets(items) == {{}} \cup {{i} : i \in 1..Len(items)}

EmptyMap == [x \in {} |-> 0]

\* TMap::Add: a new pair, or a new value for a key the map already holds.
MapAdd(map, key, value) == (key :> value) @@ map

\* UWorld::SpawnActor gives a new actor: the model names it by the least number
\* that no live marker actor has.
NewActor(world) ==
    CHOOSE a \in 1..(MaxActors + MaxList + 1) :
        a \notin DOMAIN world /\ \A b \in 1..(a - 1) : b \in DOMAIN world

\* The loop of SpawnVenueMarkers / SpawnPlayerMarkers / SpawnEventMarkers over the
\* items from index i on; w is [world, map]; the spawns of the items in fails
\* return null.
RECURSIVE SpawnLoop(_, _, _, _, _)
SpawnLoop(kind, items, fails, i, w) ==
    IF i > Len(items) THEN w
    ELSE IF i \in fails THEN SpawnLoop(kind, items, fails, i + 1, w)
    ELSE LET MarkerActor == NewActor(w.world)
         IN  SpawnLoop(kind, items, fails, i + 1,
                 [world |-> (MarkerActor :> [kind |-> kind, tag |-> items[i].Id]) @@ w.world,
                  map |-> MapAdd(w.map, items[i].Id, MarkerActor)])

\* Spawn...Markers: nothing without the mesh of the kind.
SpawnMarkers(kind, items, fails, w) ==
    IF kind \notin meshes THEN w ELSE SpawnLoop(kind, items, fails, 1, w)

\* The values of a marker map: the actors it references.
Referenced(map) == {map[k] : k \in DOMAIN map}

\* Update...: destroy the markers the map references, empty the map, take the
\* new data, spawn the new markers.
UpdateMarkers(kind, map, NewItems, fails) ==
    LET cleared == [world |-> [a \in (DOMAIN actors) \ Referenced(map) |-> actors[a]],
                    map |-> EmptyMap]
    IN  SpawnMarkers(kind, NewItems, fails, cleared)

\* The markers of a new map view; the meshes are assets set in the editor.
MarkersInit(meshSets) ==
    /\ Venues = <<>> /\ Players = <<>> /\ Events = <<>>
    /\ VenueMarkers = EmptyMap /\ PlayerMarkers = EmptyMap /\ EventMarkers = EmptyMap
    /\ meshes \in meshSets
    /\ actors = EmptyMap
    /\ survivors = 0
    /\ mapEvents = <<>>

\* The live markers of the kind an Update call is for that its map does not
\* reference: the call does not destroy them.
NotDestroyed(op) ==
    CASE op = "UpdateVenues"  -> {a \in DOMAIN actors : actors[a].kind = "Venue"} \ Referenced(VenueMarkers)
      [] op = "UpdatePlayers" -> {a \in DOMAIN actors : actors[a].kind = "Player"} \ Referenced(PlayerMarkers)
      [] op = "UpdateEvents"  -> {a \in DOMAIN actors : actors[a].kind = "Event"} \ Referenced(EventMarkers)
      [] OTHER -> {}

\* What every operation on the markers records.
MarkerStep(op, fails, w) ==
    /\ Cardinality(DOMAIN w.world) <= MaxActors
    /\ actors' = w.world
    /\ survivors' = Cardinality(NotDestroyed(op))
    /\ lastOp' = [op |-> op, arg |-> "", fails |-> fails]

UpdateVenues ==
    \E NewVenues \in ListsOf(VenueData) : \E fails \in FailureSets(NewVenues) :
        LET w == UpdateMarkers("Venue", VenueMarkers, NewVenues, fails)
        IN  /\ MarkerStep("UpdateVenues", fails, w)
            /\ Venues' = NewVenues
            /\ VenueMarkers' = w.map
            /\ mapEvents' = <<>>
            /\ UNCHANGED <<Players, Events, PlayerMarkers, EventMarkers, meshes, ExceptMarkers>>

UpdatePlayers ==
    \E NewPlayers \in ListsOf(PlayerData) : \E fails \in FailureSets(NewPlayers) :
        LET w == UpdateMarkers("Player", PlayerMarkers, NewPlayers, fails)
        IN  /\ MarkerStep("UpdatePlayers", fails, w)
            /\ Players' = NewPlayers
            /\ PlayerMarkers' = w.map
            /\ mapEvents' = <<>>
            /\ UNCHANGED <<Venues, Events, VenueMarkers, EventMarkers, meshes, ExceptMarkers>>

UpdateEvents ==
    \E NewEvents \in ListsOf(EventData) : \E fails \in FailureSets(NewEvents) :
        LET w == UpdateMarkers("Event", EventMarkers, NewEvents, fails)
        IN  /\ MarkerStep("UpdateEvents", fails, w)
            /\ Events' = NewEvents
            /\ EventMarkers' = w.map
            /\ mapEvents' = <<>>
            /\ UNCHANGED <<Venues, Players, VenueMarkers, PlayerMarkers, meshes, ExceptMarkers>>

\* A SelectVenue that goes on after the first match.
SelectVenueBroadcasts_NoBreak(VenueId) ==
    LET F[i \in 0..Len(Venues)] ==
            IF i = 0 THEN <<>>
            ELSE IF Venues[i].Id = VenueId
                 THEN Append(F[i - 1], [ev |-> "OnVenueSelected", arg |-> Venues[i]])
                 ELSE F[i - 1]
    IN  F[Len(Venues)]

\* SelectVenue(VenueId): the broadcasts of its loop over Venues, which breaks at
\* the first match (the marker found by FindRef is not touched).
SelectVenueBroadcasts(VenueId) ==
    LET Loop[i \in 1..(Len(Venues) + 1)] ==
            IF i > Len(Venues) THEN <<>>
            ELSE IF Venues[i].Id = VenueId
                 THEN <<[ev |-> "OnVenueSelected", arg |-> Venues[i]]>>
                 ELSE Loop[i + 1]
    IN  Loop[1]

SelectVenue ==
    \E VenueId \in VenueIds \cup PlayerIds :
        /\ mapEvents' = SelectVenueBroadcasts(VenueId)
        /\ lastOp' = [op |-> "SelectVenue", arg |-> VenueId, fails |-> {}]
        /\ UNCHANGED <<Venues, Players, Events, VenueMarkers, PlayerMarkers, EventMarkers,
                       meshes, actors, survivors, ExceptMarkers>>

\* ABP_MapViewHandler::OnLeftMousePressed: the actor under the cursor, when it has
\* a tag, is taken for a venue marker.
OnLeftMousePressed ==
    \E HitActor \in DOMAIN actors :
        /\ mapEvents' = SelectVenueBroadcasts(actors[HitActor].tag)
        /\ lastOp' = [op |-> "OnLeftMousePressed", arg |-> actors[HitActor].tag, fails |-> {}]
        /\ UNCHANGED <<Venues, Players, Events, VenueMarkers, PlayerMarkers, EventMarkers,
                       meshes, actors, survivors, ExceptMarkers>>

\* AMapView::BeginPlay: the camera is put at CurrentZoom and SpawnVenueMarkers runs
\* on the venues the view holds by then.
BeginPlay ==
    /\ ~bHasBegunPlay
    /\ bHasBegunPlay' = TRUE
    /\ cameraZ' = CurrentZoom
    /\ \E fails \in FailureSets(Venues) :
        LET w == SpawnMarkers("Venue", Venues, fails, [world |-> actors, map |-> VenueMarkers])
        IN  /\ MarkerStep("BeginPlay", fails, w)
            /\ VenueMarkers' = w.map
    /\ mapEvents' = <<>>
    /\ UNCHANGED <<Venues, Players, Events, PlayerMarkers, EventMarkers, meshes, flowVars,
                   MinZoom, MaxZoom, ZoomSpeed, CurrentZoom, zoomed,
                   highlightVars, voiceVars, feedVars, assistantVars, displayVars>>

MarkersNext == UpdateVenues \/ UpdatePlayers \/ UpdateEvents \/ BeginPlay

VenuesNext == UpdateVenues \/ SelectVenue \/ OnLeftMousePressed \/ BeginPlay

\* ---- Claims about the markers

IdsOf(items) == {items[i].Id : i \in 1..Len(items)}

\* The map of a kind holds exactly one live marker of the kind for each Id of the
\* items, and none for another Id.
OneMarkerForEachId(kind, map, items) ==
    /\ DOMAIN map = IdsOf(items)
    /\ \A id \in DOMAIN map :
           /\ map[id] \in DOMAIN actors
           /\ actors[map[id]] = [kind |-> kind, tag |-> id]
    /\ \A id1, id2 \in DOMAIN map : map[id1] = map[id2] => id1 = id2

UpdatedAllSpawned(op, kind) ==
    lastOp.op = op /\ kind \in meshes /\ lastOp.fails = {}

\* C2 (as stated): after UpdateVenues(N), UpdatePlayers(N) or UpdateEvents(N), with
\* the mesh of the kind set and every spawn succeeding, the marker map of the kind
\* holds exactly one live marker for each Id in N and none for an Id not in N, and
\* every marker of the kind that existed before the call has been destroyed.
C2_UpdateReplacesAllMarkers ==
    /\ UpdatedAllSpawned("UpdateVenues", "Venue") =>
           OneMarkerForEachId("Venue", VenueMarkers, Venues) /\ survivors = 0
    /\ UpdatedAllSpawned("UpdatePlayers", "Player") =>
           OneMarkerForEachId("Player", PlayerMarkers, Players) /\ survivors = 0
    /\ UpdatedAllSpawned("UpdateEvents", "Event") =>
           OneMarkerForEachId("Event", EventMarkers, Events) /\ survivors = 0

\* C8: SelectVenue(id), called directly or for the actor under the cursor,
\* broadcasts OnVenueSelected exactly once, with the first venue of Venues whose Id
\* is id, broadcasts nothing when no venue has that Id, and changes neither
\* Venues nor VenueMarkers.
C8_SelectVenueBroadcastsFirstMatch ==
    [][lastOp'.op \in {"SelectVenue", "OnLeftMousePressed"} =>
           LET matches == {i \in 1..Len(Venues) : Venues[i].Id = lastOp'.arg}
           IN  /\ Venues' = Venues
               /\ VenueMarkers' = VenueMarkers
               /\ actors' = actors
               /\ matches = {} => mapEvents' = <<>>
               /\ matches # {} =>
                      /\ Len(mapEvents') = 1
                      /\ mapEvents'[1].ev = "OnVenueSelected"
                      /\ \E i \in matches : /\ \A j \in matches : i <= j
                                             /\ mapEvents'[1].arg = Venues[i]
      ]_vars

\* A venue selected while Venues holds two different venues with its Id, the
\* second of which has the marker.
C8_Witness ==
    /\ lastOp.op = "SelectVenue"
    /\ Len(mapEvents) = 1
    /\ Len(Venues) = 2
    /\ Venues[1].Id = lastOp.arg /\ Venues[2].Id = lastOp.arg
    /\ Venues[1] # Venues[2]
    /\ mapEvents[1].arg = Venues[1]
    /\ lastOp.arg \in DOMAIN VenueMarkers

(***************************************************************************)
(*                      AMapView: highlight markers                        *)
(***************************************************************************)

\* Bound of the model of the highlights: the length of a list passed to
\* UpdateHighlights.
MaxHighlights == 2

nullptr == "nullptr"

HighlightIds == {"h1", "h2"}
HighlightPlayers == {"p1", "p2"}
HighlightTypes == {"goal", "assist"}
TeamFilters == {"", "t1"}

\* struct FHighlightData: the fields the map view reads to place a marker in
\* HighlightMarkers and to decide its visibility.
HighlightData ==
    {h \in [Id : HighlightIds, PlayerId : HighlightPlayers, HighlightType : HighlightTypes] :
        h.Id = "h1" \/ (h.PlayerId = "p1" /\ h.HighlightType = "goal")}

HighlightLists == UNION {[1..n -> HighlightData] : n \in 0..MaxHighlights}

\* FString::Printf(TEXT("HighlightMarker_%s"), *HighlightData.Id)
MarkerName(Id) == <<"HighlightMarker", Id>>

\* NewObject<UStaticMeshComponent>(this, *MarkerName): the object of that name
\* under the map view; an object that already has the name is replaced by the
\* new one.  data records the highlight the component was made for.
NewObject(world, Name, HighlightData_) ==
    [n \in DOMAIN world \cup {Name} |->
        IF n = Name THEN [data |-> HighlightData_, visible |-> TRUE] ELSE world[n]]

\* Marker->SetVisibility(b)
SetVisibility(world, Marker, b) == [world EXCEPT ![Marker].visible = b]

\* The value UpdateHighlightMarkerVisibility gives to SetVisibility; the team
\* filter is not read.
ShouldBeVisible_IgnoreType(Highlight, PlayerFilter, TypeFilter) ==
    ~(PlayerFilter # "" /\ Highlight.PlayerId # PlayerFilter)

ShouldBeVisible(Highlight, PlayerFilter, TypeFilter) ==
    LET b1 == ~(PlayerFilter # "" /\ Highlight.PlayerId # PlayerFilter)
    IN  IF b1 /\ TypeFilter # "" /\ Highlight.HighlightType # TypeFilter
        THEN FALSE
        ELSE b1

UpdateHighlightMarkerVisibility(world, Highlight, Marker, PlayerFilter, TypeFilter) ==
    SetVisibility(world, Marker, ShouldBeVisible(Highlight, PlayerFilter, TypeFilter))

\* SpawnHighlightMarker(HighlightData) on w = [world, map].
SpawnHighlightMarker(w, Highlight, mesh, PlayerFilter, TypeFilter) ==
    IF ~mesh
    THEN w
    ELSE LET MarkerComponent == MarkerName(Highlight.Id)
             created == NewObject(w.world, MarkerComponent, Highlight)
         IN  [world |-> UpdateHighlightMarkerVisibility(created, Highlight, MarkerComponent,
                                                         PlayerFilter, TypeFilter),
              map |-> MapAdd(w.map, Highlight.Id, MarkerComponent)]

\* for (const auto& Highlight : Highlights) SpawnHighlightMarker(Highlight);
RECURSIVE SpawnHighlightLoop(_, _, _, _, _, _)
SpawnHighlightLoop(w, Highlights, i, mesh, PlayerFilter, TypeFilter) ==
    IF i > Len(Highlights)
    THEN w
    ELSE SpawnHighlightLoop(SpawnHighlightMarker(w, Highlights[i], mesh, PlayerFilter, TypeFilter),
                            Highlights, i + 1, mesh, PlayerFilter, TypeFilter)

\* The loop of SetHighlightFilters over ActiveHighlights.
RECURSIVE FilterLoop(_, _, _, _, _, _)
FilterLoop(world, map, Highlights, i, PlayerFilter, TypeFilter) ==
    IF i > Len(Highlights)
    THEN world
    ELSE LET Highlight == Highlights[i]
             next == IF Highlight.Id \in DOMAIN map
                     THEN UpdateHighlightMarkerVisibility(world, Highlight, map[Highlight.Id],
                                                          PlayerFilter, TypeFilter)
                     ELSE world
         IN  FilterLoop(next, map, Highlights, i + 1, PlayerFilter, TypeFilter)

\* AMapView::AMapView leaves the highlight members default-constructed; the mesh
\* is a class default (EditDefaultsOnly).
HighlightsInit(meshChoices) ==
    /\ HighlightMarkerMesh \in meshChoices
    /\ HighlightMarkers = EmptyMap
    /\ ActiveHighlights = <<>>
    /\ CurrentPlayerFilter = ""
    /\ CurrentTeamFilter = ""
    /\ CurrentTypeFilter = ""
    /\ components = EmptyMap

UpdateHighlights ==
    \E Highlights \in HighlightLists :
        LET destroyed == {HighlightMarkers[id] : id \in DOMAIN HighlightMarkers}
            remaining == [n \in DOMAIN components \ destroyed |-> components[n]]
            w == SpawnHighlightLoop([world |-> remaining, map |-> EmptyMap], Highlights, 1,
                                    HighlightMarkerMesh, CurrentPlayerFilter, CurrentTypeFilter)
        IN  /\ ActiveHighlights' = Highlights
            /\ HighlightMarkers' = w.map
            /\ components' = w.world
            /\ lastOp' = [op |-> "UpdateHighlights", arg |-> Len(Highlights)]
            /\ UNCHANGED <<HighlightMarkerMesh, CurrentPlayerFilter, CurrentTeamFilter,
                           CurrentTypeFilter, ExceptHighlights>>

SetHighlightFilters ==
    \E PlayerFilter \in HighlightPlayers \cup {""}, TeamFilter \in TeamFilters,
       TypeFilter \in HighlightTypes \cup {""} :
        /\ CurrentPlayerFilter' = PlayerFilter
        /\ CurrentTeamFilter' = TeamFilter
        /\ CurrentTypeFilter' = TypeFilter
        /\ components' = FilterLoop(components, HighlightMarkers, ActiveHighlights, 1,
                                    PlayerFilter, TypeFilter)
        /\ lastOp' = [op |-> "SetHighlightFilters", arg |-> 0]
        /\ UNCHANGED <<HighlightMarkerMesh, HighlightMarkers, ActiveHighlights,
                       ExceptHighlights>>

ClearHighlightFilters ==
    /\ CurrentPlayerFilter' = ""
    /\ CurrentTeamFilter' = ""
    /\ CurrentTypeFilter' = ""
    /\ components' = [n \in DOMAIN components |->
                         IF \E id \in DOMAIN HighlightMarkers : HighlightMarkers[id] = n
                         THEN [components[n] EXCEPT !.visible = TRUE]
                         ELSE components[n]]
    /\ lastOp' = [op |-> "ClearHighlightFilters", arg |-> 0]
    /\ UNCHANGED <<HighlightMarkerMesh, HighlightMarkers, ActiveHighlights, ExceptHighlights>>

HighlightsNext == UpdateHighlights \/ SetHighlightFilters \/ ClearHighlightFilters

\* ---- Claim about the highlights

\* C7: after any sequence of UpdateHighlights, SetHighlightFilters and
\* ClearHighlightFilters, every live highlight marker is visible exactly when
\* (the player filter is empty or equals its highlight's PlayerId) and (the
\* type filter is empty or equals its highlight's HighlightType).
C7_VisibleIffFiltersMatch ==
    \A n \in DOMAIN components :
        components[n].visible <=>
            /\ (CurrentPlayerFilter = "" \/ CurrentPlayerFilter = components[n].data.PlayerId)
            /\ (CurrentTypeFilter = "" \/ CurrentTypeFilter = components[n].data.HighlightType)

\* SetHighlightFilters with a type filter alone has hidden one of two markers of
\* the same player and left the other visible.
C7_Witness ==
    /\ lastOp.op = "SetHighlightFilters"
    /\ CurrentPlayerFilter = "" /\ CurrentTypeFilter # ""
    /\ \E n1, n2 \in DOMAIN components :
           /\ components[n1].visible /\ ~components[n2].visible
           /\ components[n1].data.PlayerId = components[n2].data.PlayerId

(***************************************************************************)
(*                          UVoiceInputManager                             *)
(***************************************************************************)

\* Bound of the model of the voice input: the OnVoiceInputError broadcasts
\* that are counted.
MaxVoiceErrors == 12

LanguageCodes == {"en-US", "es-ES", "fr-FR", ""}

\* UVoiceInputManager::UVoiceInputManager
VoiceInit ==
    /\ bIsRecording = FALSE
    /\ CurrentLanguage = "en-US"
    /\ AudioComponent = nullptr
    /\ CaptureComponent = nullptr
    /\ WebSocket = nullptr
    /\ voiceErrors = 0

ValidateAudioSetup == ~(CaptureComponent = nullptr \/ AudioComponent = nullptr)

\* StartRecording.  InitializeWebSocket replaces the socket by a new one that is
\* connecting; InitializeAudioCapture, the one place that creates the two
\* components, is called by no function.
StartRecording ==
    /\ voiceErrors < MaxVoiceErrors
    /\ IF bIsRecording
       THEN UNCHANGED voiceVars
       ELSE IF ~ValidateAudioSetup
            THEN /\ voiceErrors' = voiceErrors + 1
                 /\ UNCHANGED <<bIsRecording, CurrentLanguage, AudioComponent,
                                CaptureComponent, WebSocket>>
            ELSE /\ WebSocket' = "connecting"
                 /\ bIsRecording' = IF CaptureComponent # nullptr THEN TRUE ELSE bIsRecording
                 /\ UNCHANGED <<CurrentLanguage, AudioComponent, CaptureComponent, voiceErrors>>
    /\ lastOp' = [op |-> "StartRecording", arg |-> ""]
    /\ UNCHANGED ExceptVoice

StopRecording ==
    /\ IF ~bIsRecording
       THEN UNCHANGED voiceVars
       ELSE /\ bIsRecording' = FALSE
            /\ UNCHANGED <<CurrentLanguage, AudioComponent, CaptureComponent, WebSocket,
                           voiceErrors>>
    /\ lastOp' = [op |-> "StopRecording", arg |-> ""]
    /\ UNCHANGED ExceptVoice

SetLanguage ==
    \E LanguageCode \in LanguageCodes :
        /\ CurrentLanguage' = LanguageCode
        /\ lastOp' = [op |-> "SetLanguage", arg |-> LanguageCode]
        /\ UNCHANGED <<bIsRecording, AudioComponent, CaptureComponent, WebSocket,
                       voiceErrors, ExceptVoice>>

VoiceNext == StartRecording \/ StopRecording \/ SetLanguage

\* ---- Claim about the voice input

\* C3 (as stated): StartRecording on a manager that is not recording starts the
\* capture and sets bIsRecording, so that IsRecording() returns true after it.
C3_StartRecordingRecords == lastOp.op = "StartRecording" => bIsRecording

(***************************************************************************)
(*                          UTimelineFeedWidget                            *)
(***************************************************************************)

\* Bounds of the model of the feed: the largest small MaxEntries, and the
\* widgets created in a run.
SmallMaxEntries == 2
MaxWidgets == 5

\* MaxEntries = 50; // Default max entries
DefaultMaxEntries == 50

\* FFeedEntry::EntryType
EntryTypes == {"badge", "highlight"}

\* UTimelineFeedWidget::UTimelineFeedWidget and the class defaults / widget
\* binding of the Blueprint subclass: TRUE stands for a pointer that is set.
FeedInit(bound, classes, limits) ==
    /\ FeedScrollBox \in bound
    /\ DefaultFeedEntryClass \in classes
    /\ BadgeEntryClass \in classes
    /\ MaxEntries \in limits
    /\ FeedEntries = <<>>
    /\ scrollChildren = <<>>
    /\ widgetsCreated = 0
    /\ feedAdded = <<>>

\* A null UUserWidget*.
NoWidget == [id |-> 0, type |-> ""]

\* CreateFeedEntryWidget(Entry): nullptr without a widget class, else a new
\* widget of the class chosen by the entry type.
CreateFeedEntryWidget(EntryType, n) ==
    LET WidgetClass == IF EntryType = "badge" THEN BadgeEntryClass ELSE DefaultFeedEntryClass
    IN  IF ~WidgetClass
        THEN NoWidget
        ELSE [id |-> n, type |-> EntryType]

\* TrimOldEntries on f = [entries, children] (FeedEntries and the children of
\* FeedScrollBox).
TrimOldEntries_KeepChildren(f, limit) ==
    IF Len(f.entries) > limit
    THEN [entries |-> SubSeq(f.entries, Len(f.entries) - limit + 1, Len(f.entries)),
          children |-> f.children]
    ELSE f

TrimOldEntries(f, limit) ==
    IF Len(f.entries) > limit
    THEN LET NumToRemove == Len(f.entries) - limit
             removed == {f.entries[i] : i \in 1..NumToRemove}
         IN  [entries |-> SubSeq(f.entries, NumToRemove + 1, Len(f.entries)),
              children |-> SelectSeq(f.children, LAMBDA c : c \notin removed)]
    ELSE f

\* The body of AddFeedEntry(Entry).
AddFeedEntryBody(EntryType) ==
    LET EntryWidget == CreateFeedEntryWidget(EntryType, widgetsCreated + 1)
        f == TrimOldEntries([entries |-> Append(FeedEntries, EntryWidget),
                             children |-> Append(scrollChildren, EntryWidget)], MaxEntries)
    IN  IF ~FeedScrollBox \/ EntryWidget = NoWidget
        THEN UNCHANGED <<FeedEntries, scrollChildren, widgetsCreated, feedAdded>>
        ELSE /\ FeedEntries' = f.entries
             /\ scrollChildren' = f.children
             /\ widgetsCreated' = widgetsCreated + 1
             /\ feedAdded' = Append(feedAdded, EntryWidget)

AddFeedEntry ==
    \E EntryType \in EntryTypes :
        /\ widgetsCreated < MaxWidgets
        /\ AddFeedEntryBody(EntryType)
        /\ lastOp' = [op |-> "AddFeedEntry", arg |-> EntryType]
        /\ UNCHANGED <<FeedScrollBox, DefaultFeedEntryClass, BadgeEntryClass, MaxEntries,
                       ExceptFeed>>

AddBadgeEntry ==
    /\ widgetsCreated < MaxWidgets
    /\ IF ~BadgeEntryClass
       THEN UNCHANGED <<FeedEntries, scrollChildren, widgetsCreated, feedAdded>>
       ELSE AddFeedEntryBody("badge")
    /\ lastOp' = [op |-> "AddBadgeEntry", arg |-> "badge"]
    /\ UNCHANGED <<FeedScrollBox, DefaultFeedEntryClass, BadgeEntryClass, MaxEntries,
                   ExceptFeed>>

ClearFeed ==
    /\ IF FeedScrollBox
       THEN /\ scrollChildren' = <<>>
            /\ FeedEntries' = <<>>
            /\ feedAdded' = <<>>
       ELSE UNCHANGED <<FeedEntries, scrollChildren, feedAdded>>
    /\ lastOp' = [op |-> "ClearFeed", arg |-> ""]
    /\ UNCHANGED <<FeedScrollBox, DefaultFeedEntryClass, BadgeEntryClass, MaxEntries,
                   widgetsCreated, ExceptFeed>>

FeedNext == AddFeedEntry \/ AddBadgeEntry \/ ClearFeed

\* ---- Claim about the feed

\* The last n items of s, all of s when it has fewer.
LastN(s, n) == IF Len(s) <= n THEN s ELSE SubSeq(s, Len(s) - n + 1, Len(s))

\* C9: after every AddFeedEntry or AddBadgeEntry, with MaxEntries >= 0,
\* FeedEntries holds at most MaxEntries widgets, they are the most recently
\* added ones in insertion order, and the children of FeedScrollBox are exactly
\* FeedEntries; after ClearFeed both are empty.
C9_FeedHoldsMostRecent ==
    /\ lastOp.op \in {"AddFeedEntry", "AddBadgeEntry"} =>
           /\ Len(FeedEntries) <= MaxEntries
           /\ FeedEntries = LastN(feedAdded, MaxEntries)
           /\ scrollChildren = FeedEntries
    /\ lastOp.op = "ClearFeed" => FeedEntries = <<>> /\ scrollChildren = <<>>

\* An entry added to a full feed: the oldest has been trimmed, the feed is full
\* again and holds entries of both types.
C9_Witness ==
    /\ lastOp.op \in {"AddFeedEntry", "AddBadgeEntry"}
    /\ MaxEntries > 1
    /\ Len(feedAdded) > MaxEntries
    /\ Len(FeedEntries) = MaxEntries
    /\ FeedEntries[MaxEntries] = feedAdded[Len(feedAdded)]
    /\ \E i, j \in 1..Len(FeedEntries) : FeedEntries[i].type # FeedEntries[j].type

(***************************************************************************)
(*                         UCoachAssistantWidget                           *)
(***************************************************************************)

\* Bound of the model of the assistant: the messages created in a run.
MaxAsked == 12

\* static const int32 MAX_MESSAGE_HISTORY = 10;
MAX_MESSAGE_HISTORY == 10

Questions == {"", "Show me my progress"}
Responses == {"Work on your first touch"}

\* struct FCoachMessage; Timestamp is FDateTime::Now(), a clock that has ticked
\* once for every message created before.
CoachMessage(Message, bIsUserMessage, now) ==
    [Message |-> Message, bIsUserMessage |-> bIsUserMessage, Timestamp |-> now]

\* UCoachAssistantWidget::UCoachAssistantWidget; ChatScrollBox is a bound widget
\* of the Blueprint subclass, TRUE when it is set.
AssistantInit(bound) ==
    /\ ChatScrollBox \in bound
    /\ CoachMessageHistory = <<>>
    /\ chatBubbles = 0
    /\ coachAdded = <<>>
    /\ coachEvents = <<>>

\* while (MessageHistory.Num() > MAX_MESSAGE_HISTORY) MessageHistory.RemoveAt(0);
RECURSIVE TrimMessageHistory_DropNewest(_)
TrimMessageHistory_DropNewest(history) ==
    IF Len(history) > MAX_MESSAGE_HISTORY
    THEN TrimMessageHistory_DropNewest(SubSeq(history, 1, Len(history) - 1))
    ELSE history

RECURSIVE TrimMessageHistory(_)
TrimMessageHistory(history) ==
    IF Len(history) > MAX_MESSAGE_HISTORY
    THEN TrimMessageHistory(Tail(history))
    ELSE history

AddMessageToHistory(history, Message) == TrimMessageHistory(Append(history, Message))

\* CreateMessageBubble: one more child of ChatScrollBox, when there is one.
CreateMessageBubble(bubbles) == IF ChatScrollBox THEN bubbles + 1 ELSE bubbles

AskQuestion ==
    \E Question \in Questions :
        /\ Len(coachAdded) < MaxAsked
        /\ IF Question = ""
           THEN UNCHANGED <<CoachMessageHistory, chatBubbles, coachAdded, coachEvents>>
           ELSE LET UserMessage == CoachMessage(Question, TRUE, Len(coachAdded))
                IN  /\ CoachMessageHistory' = AddMessageToHistory(CoachMessageHistory, UserMessage)
                    /\ chatBubbles' = CreateMessageBubble(chatBubbles)
                    /\ coachAdded' = Append(coachAdded, UserMessage)
                    /\ coachEvents' = <<[ev |-> "OnQuestionAsked", arg |-> Question]>>
        /\ lastOp' = [op |-> "AskQuestion", arg |-> Question]
        /\ UNCHANGED <<ChatScrollBox, ExceptAssistant>>

DisplayCoachResponse ==
    \E Response \in Responses :
        /\ Len(coachAdded) < MaxAsked
        /\ LET CoachMessage_ == CoachMessage(Response, FALSE, Len(coachAdded))
           IN  /\ CoachMessageHistory' = AddMessageToHistory(CoachMessageHistory, CoachMessage_)
               /\ chatBubbles' = CreateMessageBubble(chatBubbles)
               /\ coachAdded' = Append(coachAdded, CoachMessage_)
               /\ coachEvents' = <<[ev |-> "OnResponseReceived", arg |-> Response]>>
        /\ lastOp' = [op |-> "DisplayCoachResponse", arg |-> Response]
        /\ UNCHANGED <<ChatScrollBox, ExceptAssistant>>

AssistantNext == AskQuestion \/ DisplayCoachResponse

\* ---- Claim about the assistant

\* C10: after any sequence of AskQuestion and DisplayCoachResponse calls, the
\* assistant's MessageHistory holds at most MAX_MESSAGE_HISTORY (10) messages,
\* and they are the most recently added messages in the order they were added.
C10_HistoryHoldsLastTen ==
    /\ Len(CoachMessageHistory) <= MAX_MESSAGE_HISTORY
    /\ CoachMessageHistory = LastN(coachAdded, MAX_MESSAGE_HISTORY)

\* More than ten messages have been added, questions and responses among them:
\* the history is full and ends with the one added last.
C10_Witness ==
    /\ Len(coachAdded) > MAX_MESSAGE_HISTORY
    /\ Len(CoachMessageHistory) = MAX_MESSAGE_HISTORY
    /\ CoachMessageHistory[MAX_MESSAGE_HISTORY] = coachAdded[Len(coachAdded)]
    /\ CoachMessageHistory[1] = coachAdded[Len(coachAdded) - MAX_MESSAGE_HISTORY + 1]
    /\ \E i, j \in 1..MAX_MESSAGE_HISTORY :
           CoachMessageHistory[i].bIsUserMessage /\ ~CoachMessageHistory[j].bIsUserMessage

(***************************************************************************)
(*                          UMediaPlayerWidget                             *)
(***************************************************************************)

\* Bound of the model of the media player: the UMediaPlayer objects created (one
\* by each NativeConstruct).
MaxPlayers == 2

MediaURLs == {"", DrillVideoURL}

\* The seconds MediaPlayer->GetDuration() reports for an opened medium.
MediaLength == 90

\* UMediaPlayerWidget::UMediaPlayerWidget.  mediaPlayers is the engine's side:
\* every UMediaPlayer created so far, "Closed", "Opening", "Stopped" (opened
\* and not playing) or "Playing".
MediaInit ==
    /\ MediaPlayer = 0
    /\ mediaPlayers = <<>>
    /\ bIsPlaying = FALSE
    /\ bIsMuted = FALSE
    /\ Duration = 0
    /\ userPlayed = FALSE
    /\ mediaEvents = <<>>

\* NativeConstruct: InitializeMediaPlayer makes a new player and binds the three
\* handlers to it; the player made by an earlier NativeConstruct stays bound
\* for as long as it lives.
InitializeMediaPlayer ==
    /\ Len(mediaPlayers) < MaxPlayers
    /\ mediaPlayers' = Append(mediaPlayers, "Closed")
    /\ MediaPlayer' = Len(mediaPlayers) + 1
    /\ mediaEvents' = <<>>
    /\ lastOp' = [op |-> "InitializeMediaPlayer", arg |-> Len(mediaPlayers) + 1]
    /\ UNCHANGED <<bIsPlaying, bIsMuted, Duration, userPlayed, ExceptMedia>>

\* MediaPlayer->OpenUrl(URL): the medium that was open is closed; an empty URL
\* opens nothing, any other is opened asynchronously.
OpenUrl(players, p, URL) ==
    [players EXCEPT ![p] = IF URL = "" THEN "Closed" ELSE "Opening"]

LoadMedia ==
    \E URL \in MediaURLs :
        /\ IF MediaPlayer = 0
           THEN UNCHANGED mediaPlayers
           ELSE mediaPlayers' = OpenUrl(mediaPlayers, MediaPlayer, URL)
        /\ mediaEvents' = <<>>
        /\ lastOp' = [op |-> "LoadMedia", arg |-> URL]
        /\ UNCHANGED <<MediaPlayer, bIsPlaying, bIsMuted, Duration, userPlayed, ExceptMedia>>

\* MediaPlayer->Play() / Pause(): the rate of an opened medium.
SetRate(players, p, playing) ==
    IF players[p] \in {"Stopped", "Playing"}
    THEN [players EXCEPT ![p] = IF playing THEN "Playing" ELSE "Stopped"]
    ELSE players

\* Play() on w = [players, playing] (the engine's players and bIsPlaying).
PlayBody_NotPlaying(w) ==
    IF MediaPlayer # 0
    THEN [players |-> SetRate(w.players, MediaPlayer, TRUE), playing |-> w.playing]
    ELSE w

PlayBody(w) ==
    IF MediaPlayer # 0
    THEN [players |-> SetRate(w.players, MediaPlayer, TRUE), playing |-> TRUE]
    ELSE w

PauseBody(w) ==
    IF MediaPlayer # 0
    THEN [players |-> SetRate(w.players, MediaPlayer, FALSE), playing |-> FALSE]
    ELSE w

Play ==
    LET w == PlayBody([players |-> mediaPlayers, playing |-> bIsPlaying])
    IN  /\ mediaPlayers' = w.players
        /\ bIsPlaying' = w.playing
        /\ userPlayed' = TRUE
        /\ mediaEvents' = <<>>
        /\ lastOp' = [op |-> "Play", arg |-> 0]
        /\ UNCHANGED <<MediaPlayer, bIsMuted, Duration, ExceptMedia>>

Pause ==
    LET w == PauseBody([players |-> mediaPlayers, playing |-> bIsPlaying])
    IN  /\ mediaPlayers' = w.players
        /\ bIsPlaying' = w.playing
        /\ mediaEvents' = <<>>
        /\ lastOp' = [op |-> "Pause", arg |-> 0]
        /\ UNCHANGED <<MediaPlayer, bIsMuted, Duration, userPlayed, ExceptMedia>>

\* TogglePlayPause, also the handler of PlayPauseButton.
TogglePlayPause ==
    LET w0 == [players |-> mediaPlayers, playing |-> bIsPlaying]
        w == IF bIsPlaying THEN PauseBody(w0) ELSE PlayBody(w0)
    IN  /\ mediaPlayers' = w.players
        /\ bIsPlaying' = w.playing
        /\ userPlayed' = (userPlayed \/ ~bIsPlaying)
        /\ mediaEvents' = <<>>
        /\ lastOp' = [op |-> "TogglePlayPause", arg |-> 0]
        /\ UNCHANGED <<MediaPlayer, bIsMuted, Duration, ExceptMedia>>

\* ToggleMute; SoundComponent is made together with MediaPlayer.
ToggleMute ==
    /\ bIsMuted' = IF MediaPlayer # 0 THEN ~bIsMuted ELSE bIsMuted
    /\ mediaEvents' = <<>>
    /\ lastOp' = [op |-> "ToggleMute", arg |-> 0]
    /\ UNCHANGED <<MediaPlayer, mediaPlayers, bIsPlaying, Duration, userPlayed, ExceptMedia>>

\* OnMediaOpened of player p: HandleMediaOpened reads the duration of the
\* current MediaPlayer and calls Play().
HandleMediaOpened ==
    \E p \in DOMAIN mediaPlayers :
        /\ mediaPlayers[p] = "Opening"
        /\ LET opened == [mediaPlayers EXCEPT ![p] = "Stopped"]
               w == PlayBody([players |-> opened, playing |-> bIsPlaying])
           IN  /\ mediaPlayers' = w.players
               /\ bIsPlaying' = w.playing
               /\ Duration' = IF opened[MediaPlayer] \in {"Stopped", "Playing"}
                              THEN MediaLength ELSE 0
        /\ mediaEvents' = <<>>
        /\ lastOp' = [op |-> "HandleMediaOpened", arg |-> p]
        /\ UNCHANGED <<MediaPlayer, bIsMuted, userPlayed, ExceptMedia>>

\* OnEndReached of player p, which was playing.
HandleMediaEndReached ==
    \E p \in DOMAIN mediaPlayers :
        /\ mediaPlayers[p] = "Playing"
        /\ mediaPlayers' = [mediaPlayers EXCEPT ![p] = "Stopped"]
        /\ bIsPlaying' = FALSE
        /\ mediaEvents' = <<[ev |-> "OnMediaEnded", arg |-> ""]>>
        /\ lastOp' = [op |-> "HandleMediaEndReached", arg |-> p]
        /\ UNCHANGED <<MediaPlayer, bIsMuted, Duration, userPlayed, ExceptMedia>>

\* OnMediaOpenFailed of player p.
HandleMediaFailed ==
    \E p \in DOMAIN mediaPlayers :
        /\ mediaPlayers[p] = "Opening"
        /\ mediaPlayers' = [mediaPlayers EXCEPT ![p] = "Closed"]
        /\ mediaEvents' = <<[ev |-> "OnMediaError", arg |-> "Failed to load media"]>>
        /\ lastOp' = [op |-> "HandleMediaFailed", arg |-> p]
        /\ UNCHANGED <<MediaPlayer, bIsPlaying, bIsMuted, Duration, userPlayed, ExceptMedia>>

MediaNext ==
    \/ InitializeMediaPlayer \/ LoadMedia \/ Play \/ Pause \/ TogglePlayPause \/ ToggleMute
    \/ HandleMediaOpened \/ HandleMediaEndReached \/ HandleMediaFailed

\* ---- Claim about the media player

\* C11: once the media player reports the URL opened the widget is playing
\* (bIsPlaying) without a Play call of the user; when the end of the medium is
\* reached bIsPlaying is false and OnMediaEnded has been broadcast exactly once;
\* a failed open broadcasts OnMediaError, never OnMediaEnded, and leaves the
\* player closed, so that no end is reached for it.
C11_LoadMediaPlaysToTheEnd ==
    /\ lastOp.op = "HandleMediaOpened" =>
           /\ bIsPlaying
           /\ mediaEvents = <<>>
           /\ lastOp.arg = MediaPlayer => mediaPlayers[MediaPlayer] = "Playing"
    /\ lastOp.op = "HandleMediaEndReached" =>
           /\ ~bIsPlaying
           /\ Len(mediaEvents) = 1 /\ mediaEvents[1].ev = "OnMediaEnded"
    /\ lastOp.op = "HandleMediaFailed" =>
           /\ Len(mediaEvents) = 1 /\ mediaEvents[1].ev = "OnMediaError"
           /\ mediaPlayers[lastOp.arg] = "Closed"

\* The end of a medium is reached that nobody but HandleMediaOpened started.
C11_Witness ==
    /\ lastOp.op = "HandleMediaEndReached"
    /\ ~userPlayed
    /\ ~bIsPlaying
    /\ Len(mediaEvents) = 1

(***************************************************************************)
(*                          UImageDisplayWidget                            *)
(***************************************************************************)

\* Bound of the model of the image display: the LoadImage calls of a run.
MaxImageCalls == 3

ImageURLs == {"", "https://sportbeacon.cdn/images/court.png"}
ImageIds == {"img1", "img2"}

\* What the completion of the HTTP request finds, in the order the lambda tests:
\* no response, no known image format, data the wrapper cannot take, data it
\* cannot decode, and a decoded image, for which CreateTransient gives a texture
\* or nullptr.
RequestOutcomes == {"Failed to download image", "Invalid image format",
                    "Failed to process image data", "Failed to decode image",
                    "texture", "Failed to create texture"}

\* UImageDisplayWidget::UImageDisplayWidget; ImageDisplay is a bound widget of
\* the Blueprint subclass, TRUE when it is set.  imageCalls is the history of
\* the LoadImage calls: for each its request ("none", "pending", "queued" on the
\* game thread with its outcome, "done") and the broadcasts made for it.
ImageInit(bound) ==
    /\ ImageDisplay \in bound
    /\ CurrentImageId = ""
    /\ CurrentImageURL = ""
    /\ bIsLoading = FALSE
    /\ imageCalls = <<>>
    /\ imageEvents = <<>>

\* The broadcasts of HandleImageLoaded(LoadedTexture), LoadedTexture not null.
HandleImageLoaded(bound, ImageId) ==
    IF bound
    THEN <<[ev |-> "OnImageLoaded", arg |-> ImageId]>>
    ELSE <<>>

\* The broadcasts of HandleImageLoadError(ErrorMessage).
HandleImageLoadError(ImageId, ErrorMessage) ==
    <<[ev |-> "OnImageError", arg |-> ImageId, msg |-> ErrorMessage]>>

CountOf(events, ev) == Cardinality({i \in 1..Len(events) : events[i].ev = ev})

LoadImage ==
    \E URL \in ImageURLs, ImageId \in ImageIds :
        /\ Len(imageCalls) < MaxImageCalls
        /\ IF URL = ""
           THEN /\ imageEvents' = HandleImageLoadError(CurrentImageId, "Invalid URL provided")
                /\ bIsLoading' = FALSE
                /\ imageCalls' = Append(imageCalls,
                                        [request |-> "none", outcome |-> "", sent |-> FALSE,
                                         loaded |-> 0, errors |-> 1])
                /\ UNCHANGED <<CurrentImageId, CurrentImageURL>>
           ELSE /\ CurrentImageId' = ImageId
                /\ CurrentImageURL' = URL
                /\ bIsLoading' = TRUE
                /\ imageEvents' = <<>>
                /\ imageCalls' = Append(imageCalls,
                                        [request |-> "pending", outcome |-> "", sent |-> TRUE,
                                         loaded |-> 0, errors |-> 0])
        /\ lastOp' = [op |-> "LoadImage", arg |-> URL]
        /\ UNCHANGED <<ImageDisplay, ExceptImage>>

\* The lambda bound to OnProcessRequestComplete: it finds the outcome and hands
\* the rest to the game thread.
OnProcessRequestComplete ==
    \E c \in DOMAIN imageCalls, outcome \in RequestOutcomes :
        /\ imageCalls[c].request = "pending"
        /\ imageCalls' = [imageCalls EXCEPT ![c].request = "queued", ![c].outcome = outcome]
        /\ imageEvents' = <<>>
        /\ lastOp' = [op |-> "OnProcessRequestComplete", arg |-> c]
        /\ UNCHANGED <<ImageDisplay, CurrentImageId, CurrentImageURL, bIsLoading, ExceptImage>>

\* The task of AsyncTask(ENamedThreads::GameThread, ...) of call c.
AsyncTask ==
    \E c \in DOMAIN imageCalls :
        /\ imageCalls[c].request = "queued"
        /\ LET events == IF imageCalls[c].outcome = "texture"
                         THEN HandleImageLoaded(ImageDisplay, CurrentImageId)
                         ELSE HandleImageLoadError(CurrentImageId, imageCalls[c].outcome)
           IN  /\ imageEvents' = events
               /\ bIsLoading' = IF events = <<>> THEN bIsLoading ELSE FALSE
               /\ imageCalls' = [imageCalls EXCEPT
                                    ![c].request = "done",
                                    ![c].loaded = CountOf(events, "OnImageLoaded"),
                                    ![c].errors = CountOf(events, "OnImageError")]
        /\ lastOp' = [op |-> "AsyncTask", arg |-> c]
        /\ UNCHANGED <<ImageDisplay, CurrentImageId, CurrentImageURL, ExceptImage>>

ImageNext == LoadImage \/ OnProcessRequestComplete \/ AsyncTask

\* ---- Claim about the image display

\* C12 (as stated): every LoadImage call has exactly one broadcast of
\* OnImageLoaded or OnImageError, never both and never none, once its HTTP
\* request has completed; a call with an empty URL has its OnImageError at once
\* and sends no request.
C12_OneBroadcastForEachLoadImage ==
    \A c \in DOMAIN imageCalls :
        /\ imageCalls[c].request \in {"done", "none"} =>
               imageCalls[c].loaded + imageCalls[c].errors = 1
        /\ imageCalls[c].request = "none" =>
               imageCalls[c].errors = 1 /\ ~imageCalls[c].sent

\* ---- Claim about the markers and the highlights together

\* The marker map of a kind of marker actor.
MarkerMapOf(kind) ==
    CASE kind = "Venue"  -> VenueMarkers
      [] kind = "Player" -> PlayerMarkers
      [] kind = "Event"  -> EventMarkers

LiveActorsReferenced ==
    \A a \in DOMAIN actors : a \in Referenced(MarkerMapOf(actors[a].kind))

LiveComponentsReferenced ==
    \A n \in DOMAIN components : n \in Referenced(HighlightMarkers)

\* C14 (as stated): every marker actor and every highlight component the map
\* view has spawned and not destroyed is referenced by the marker map of its
\* kind (VenueMarkers, PlayerMarkers, EventMarkers, HighlightMarkers), also
\* after an Update call whose list holds two items with the same Id, so that
\* the next Update call of the kind destroys it.
C14_EveryLiveMarkerIsReferenced ==
    LiveActorsReferenced /\ LiveComponentsReferenced

(***************************************************************************)
(*                          UBadgeRewardWidget                             *)
(***************************************************************************)

\* Bound of the model of the badge: the DisplayEarnedBadge calls of a run.
MaxBadgeCalls == 3

Animations == {"FadeInAnimation", "PulseAnimation", "SparkleAnimation"}

NoStarts == [a \in Animations |-> 0]

\* UBadgeRewardWidget::UBadgeRewardWidget.  boundAnimations: the animations of
\* the Blueprint subclass that are bound (BindWidgetAnim); activeAnimations:
\* those that are running; fadeInFinished, pulseFinished: the number of
\* delegates added to the animation's finished event; started: how often each
\* animation has been started since the last DisplayEarnedBadge.
BadgeInit(bindings) ==
    /\ boundAnimations \in bindings
    /\ activeAnimations = {}
    /\ fadeInFinished = 0
    /\ pulseFinished = 0
    /\ started = NoStarts
    /\ badgeCalls = 0

\* PlayAnimation(Animation, 0.0f, 1, Forward, 1.0f), n times in a row, on
\* b = [active, started].
PlayAnimation(b, Animation, n) ==
    IF n = 0
    THEN b
    ELSE [active |-> b.active \cup {Animation},
          started |-> [b.started EXCEPT ![Animation] = @ + n]]

\* DisplayEarnedBadge(BadgeData): PlayAnimationSequence starts FadeInAnimation
\* and adds a delegate to its finished event.
DisplayEarnedBadge ==
    /\ badgeCalls < MaxBadgeCalls
    /\ badgeCalls' = badgeCalls + 1
    /\ IF "FadeInAnimation" \in boundAnimations
       THEN LET b == PlayAnimation([active |-> activeAnimations, started |-> NoStarts],
                                   "FadeInAnimation", 1)
            IN  /\ activeAnimations' = b.active
                /\ started' = b.started
                /\ fadeInFinished' = fadeInFinished + 1
       ELSE /\ started' = NoStarts
            /\ UNCHANGED <<activeAnimations, fadeInFinished>>
    /\ lastOp' = [op |-> "DisplayEarnedBadge", arg |-> badgeCalls + 1]
    /\ UNCHANGED <<boundAnimations, pulseFinished, ExceptBadge>>

\* FadeInAnimation finishes: every delegate added to its finished event runs,
\* and each starts PulseAnimation and adds a delegate to its finished event.
FadeInAnimationFinished ==
    /\ "FadeInAnimation" \in activeAnimations
    /\ LET n == IF "PulseAnimation" \in boundAnimations THEN fadeInFinished ELSE 0
           b == PlayAnimation([active |-> activeAnimations \ {"FadeInAnimation"}, started |-> started],
                              "PulseAnimation", n)
       IN  /\ activeAnimations' = b.active
           /\ started' = b.started
           /\ pulseFinished' = pulseFinished + n
    /\ lastOp' = [op |-> "FadeInAnimationFinished", arg |-> fadeInFinished]
    /\ UNCHANGED <<boundAnimations, fadeInFinished, badgeCalls, ExceptBadge>>

\* PulseAnimation finishes: every delegate added to its finished event starts
\* SparkleAnimation.
PulseAnimationFinished ==
    /\ "PulseAnimation" \in activeAnimations
    /\ LET n == IF "SparkleAnimation" \in boundAnimations THEN pulseFinished ELSE 0
           b == PlayAnimation([active |-> activeAnimations \ {"PulseAnimation"}, started |-> started],
                              "SparkleAnimation", n)
       IN  /\ activeAnimations' = b.active
           /\ started' = b.started
    /\ lastOp' = [op |-> "PulseAnimationFinished", arg |-> pulseFinished]
    /\ UNCHANGED <<boundAnimations, fadeInFinished, pulseFinished, badgeCalls, ExceptBadge>>

SparkleAnimationFinished ==
    /\ "SparkleAnimation" \in activeAnimations
    /\ activeAnimations' = activeAnimations \ {"SparkleAnimation"}
    /\ lastOp' = [op |-> "SparkleAnimationFinished", arg |-> 0]
    /\ UNCHANGED <<boundAnimations, fadeInFinished, pulseFinished, started, badgeCalls,
                   ExceptBadge>>

BadgeNext ==
    \/ DisplayEarnedBadge \/ FadeInAnimationFinished \/ PulseAnimationFinished
    \/ SparkleAnimationFinished

\* ---- Claim about the badge

\* C13 (as stated): with the three animations bound, each DisplayEarnedBadge
\* call starts FadeInAnimation, then PulseAnimation when FadeIn has finished,
\* then SparkleAnimation when Pulse has finished, each exactly once for the
\* call, also when DisplayEarnedBadge is called several times on the widget.
C13_EachAnimationOncePerCall ==
    (boundAnimations = Animations /\ badgeCalls > 0) =>
        /\ started["FadeInAnimation"] = 1
        /\ started["PulseAnimation"] <= 1
        /\ started["SparkleAnimation"] <= 1
        /\ lastOp.op = "FadeInAnimationFinished" => started["PulseAnimation"] = 1
        /\ lastOp.op = "PulseAnimationFinished" => started["SparkleAnimation"] = 1

OtherInit == bHasBegunPlay = FALSE /\ lastOp = [op |-> "Init", arg |-> 0]

AllMeshes == {"Venue", "Player", "Event"}
CameraDefault == CameraInit({Float(DefaultMinZoom)}, {Float(DefaultMaxZoom)})
MarkersDefault == MarkersInit({AllMeshes})
HighlightsDefault == HighlightsInit({TRUE})
FeedDefault == FeedInit({TRUE}, {TRUE}, {DefaultMaxEntries})
AssistantDefault == AssistantInit({TRUE})
ImageDefault == ImageInit({TRUE})
BadgeDefault == BadgeInit({Animations})
DisplayDefault == MediaInit /\ ImageDefault /\ BadgeDefault

\* ---- The specifications, one for each object

InitFlow ==
    /\ FlowInit
    /\ CameraDefault /\ MarkersDefault /\ HighlightsDefault /\ VoiceInit /\ FeedDefault
    /\ AssistantDefault /\ DisplayDefault /\ OtherInit
SpecFlow == InitFlow /\ [][FlowNext]_vars

InitCamera ==
    /\ CameraInit({Float(DefaultMinZoom), Float(HighMinZoom)},
                  {Float(DefaultMaxZoom), Float(LowMaxZoom)})
    /\ FlowInit /\ MarkersDefault /\ HighlightsDefault /\ VoiceInit /\ FeedDefault
    /\ AssistantDefault /\ DisplayDefault /\ OtherInit
CameraNext == ZoomIn \/ ZoomOut \/ HandleZoom \/ BeginPlay
SpecCamera == InitCamera /\ [][CameraNext]_vars

InitMarkers ==
    /\ MarkersInit({AllMeshes, {"Venue"}, {}})
    /\ FlowInit /\ CameraDefault /\ HighlightsDefault /\ VoiceInit /\ FeedDefault
    /\ AssistantDefault /\ DisplayDefault /\ OtherInit
SpecMarkers == InitMarkers /\ [][MarkersNext]_vars

SpecVenues == InitMarkers /\ [][VenuesNext]_vars

InitHighlights ==
    /\ HighlightsInit(BOOLEAN)
    /\ FlowInit /\ CameraDefault /\ MarkersDefault /\ VoiceInit /\ FeedDefault
    /\ AssistantDefault /\ DisplayDefault /\ OtherInit
SpecHighlights == InitHighlights /\ [][HighlightsNext]_vars

InitVoice ==
    /\ VoiceInit
    /\ FlowInit /\ CameraDefault /\ MarkersDefault /\ HighlightsDefault /\ FeedDefault
    /\ AssistantDefault /\ DisplayDefault /\ OtherInit
SpecVoice == InitVoice /\ [][VoiceNext]_vars

InitFeed ==
    /\ FeedInit(BOOLEAN, BOOLEAN, 0..SmallMaxEntries \cup {DefaultMaxEntries})
    /\ FlowInit /\ CameraDefault /\ MarkersDefault /\ HighlightsDefault /\ VoiceInit
    /\ AssistantDefault /\ DisplayDefault /\ OtherInit
SpecFeed == InitFeed /\ [][FeedNext]_vars

InitAssistant ==
    /\ AssistantInit(BOOLEAN)
    /\ FlowInit /\ CameraDefault /\ MarkersDefault /\ HighlightsDefault /\ VoiceInit
    /\ FeedDefault /\ DisplayDefault /\ OtherInit
SpecAssistant == InitAssistant /\ [][AssistantNext]_vars

InitMedia ==
    /\ MediaInit
    /\ FlowInit /\ CameraDefault /\ MarkersDefault /\ HighlightsDefault /\ VoiceInit
    /\ FeedDefault /\ AssistantDefault /\ ImageDefault /\ BadgeDefault /\ OtherInit
SpecMedia == InitMedia /\ [][MediaNext]_vars

InitImage ==
    /\ ImageInit(BOOLEAN)
    /\ FlowInit /\ CameraDefault /\ MarkersDefault /\ HighlightsDefault /\ VoiceInit
    /\ FeedDefault /\ AssistantDefault /\ MediaInit /\ BadgeDefault /\ OtherInit
SpecImage == InitImage /\ [][ImageNext]_vars

InitBadge ==
    /\ BadgeInit(SUBSET Animations)
    /\ FlowInit /\ CameraDefault /\ MarkersDefault /\ HighlightsDefault /\ VoiceInit
    /\ FeedDefault /\ AssistantDefault /\ MediaInit /\ ImageDefault /\ OtherInit
SpecBadge == InitBadge /\ [][BadgeNext]_vars

====
